---- MODULE Spec2Model ----
(***************************************************************************)
(* Model of the token contracts of ProjectLiquidChain/sample-contracts.    *)
(* The canonical contract is src/c/qash/contract.c.  The host gives a      *)
(* key-value storage (chain_storage_size_get / _get / _set), the caller's  *)
(* address and an event sink; one invocation of a public function runs to  *)
(* completion or ends in exit(1).                                          *)
(***************************************************************************)
EXTENDS Integers, Sequences, FiniteSets, TLC

\* ---------------------------------------------------------------- bounds
Width == 2                      \* bits of the unsigned integer type (uint64_t scaled down)
MaxSteps == 3                   \* invocations in one behaviour

Modulus == 2 ^ Width
UMax == Modulus - 1
U64 == 0 .. UMax
\* The values passed as arguments: the small ones and the largest.
Amounts == {0, 1, 2, UMax}

\* ------------------------------------------------------------- constants
ADDRESS_SIZE == 35
DECIMALS == 6
\* "QASH" with its terminating NUL: the 5 bytes of the string literal.
SYMBOL == <<81, 65, 83, 72, 0>>

\* An address is ADDRESS_SIZE raw bytes; the ones used here differ in byte 1.
Addr(b) == [i \in 1 .. ADDRESS_SIZE |-> IF i = 1 THEN b ELSE 0]
Addresses == {Addr(1), Addr(2)}
Memos == {7}

\* Key strings with their terminating NUL: sizeof("OWNER") counts it.
OWNER_KEY == <<79, 87, 78, 69, 82, 0>>
BALANCES_PREFIX == <<66, 65, 76, 65, 78, 67, 69, 83, 0>>
ALLOWANCES_PREFIX == <<65, 76, 76, 79, 87, 65, 78, 67, 69, 83, 0>>
PAUSE_KEY == <<80, 65, 85, 83, 69, 0>>
TOTAL_SUPPLY_KEY == <<84, 79, 84, 65, 76, 95, 83, 85, 80, 80, 76, 89, 0>>

\* ------------------------------------------------------------- the state
VARIABLES
  storage,    \* the host's key-value store: a function from the keys present to their values
  pre,        \* the store as it was when the last invocation started
  last,       \* the invocation that has just ended: function, caller, arguments,
              \* outcome; op = "none" between invocations
  trace,      \* what that invocation did, in order: storage writes and events
  steps,      \* number of invocations so far
  args,       \* the arguments of a helper function applied on its own
  result      \* what that application gave; <<>> before it

vars == <<storage, pre, last, trace, steps, args, result>>

\* ----------------------------------------------------- host storage calls
chain_storage_size_get(store, key) == IF key \in DOMAIN store THEN 1 ELSE 0

chain_storage_set(store, key, value) ==
  [k \in (DOMAIN store) \cup {key} |-> IF k = key THEN value ELSE store[k]]

\* chain_storage_get fills the buffer when the key is present and leaves it
\* as it was (buf) when the key is absent.
chain_storage_get(store, key, buf) == IF key \in DOMAIN store THEN store[key] ELSE buf

\* ------------------------------------------ the run of one invocation
\* ok: not exited; store: the store as written so far; trace: writes and
\* events; ret: <<v>> when the function returns the value v, else <<>>.
Start(store) == [ok |-> TRUE, store |-> store, trace |-> <<>>, ret |-> <<>>]
Ret(r, v) == [r EXCEPT !.ret = <<v>>]
Set(r, key, value) ==
  [r EXCEPT !.store = chain_storage_set(r.store, key, value),
            !.trace = Append(@, <<"set", key, value>>)]
Emit(r, ev) == [r EXCEPT !.trace = Append(@, ev)]
Exit(r) == [r EXCEPT !.ok = FALSE]

\* ------------------------------------------------------------- safe math
\* add without the assert: the sum is returned whatever it is.
add_exits_unchecked(a, b) == FALSE

add_exits(a, b) == ~(((a + b) % Modulus) >= a)
add(a, b) == (a + b) % Modulus
sub_exits(a, b) == ~(b <= a)
sub(a, b) == (a - b) % Modulus

\* ------------------------------------------------------------------ keys
_build_balance_key(address) == BALANCES_PREFIX \o address
\* _build_allowance_key whose second copy takes the owner again.
_build_allowance_key_owner_twice(owner, spender) == ALLOWANCES_PREFIX \o owner \o owner

_build_allowance_key(owner, spender) == ALLOWANCES_PREFIX \o owner \o spender

\* ------------------------------------------------------------- functions
\* garbage: the contents of the local buffer `owner` before chain_storage_get;
\* it is what is compared when no owner is stored.
is_owner(store, caller, garbage) == chain_storage_get(store, OWNER_KEY, garbage) = caller

get_balance(store, address) ==
  IF chain_storage_size_get(store, _build_balance_key(address)) # 0
  THEN chain_storage_get(store, _build_balance_key(address), 0)
  ELSE 0

is_paused(store) ==
  IF chain_storage_size_get(store, PAUSE_KEY) # 0
  THEN chain_storage_get(store, PAUSE_KEY, 0)
  ELSE 0

get_allowance(store, owner, spender) ==
  IF chain_storage_size_get(store, _build_allowance_key(owner, spender)) # 0
  THEN chain_storage_get(store, _build_allowance_key(owner, spender), 0)
  ELSE 0

\* init without the lock: it does not test that no owner is stored.
init_unlocked(r, caller, value) ==
  LET r1 == Set(r, OWNER_KEY, caller)
      r2 == Emit(r1, <<"Owner", caller>>)
      r3 == Set(r2, _build_balance_key(caller), value)
      r4 == Set(r3, TOTAL_SUPPLY_KEY, value)
  IN  Emit(r4, <<"Mint", caller, value>>)

init(r, caller, value) ==
  IF ~(chain_storage_size_get(r.store, OWNER_KEY) = 0) THEN Exit(r)
  ELSE LET r1 == Set(r, OWNER_KEY, caller)
           r2 == Emit(r1, <<"Owner", caller>>)
           r3 == Set(r2, _build_balance_key(caller), value)
           r4 == Set(r3, TOTAL_SUPPLY_KEY, value)
       IN  Emit(r4, <<"Mint", caller, value>>)

change_owner(r, caller, garbage, new_owner) ==
  IF ~is_owner(r.store, caller, garbage) THEN Exit(r)
  ELSE LET owner == chain_storage_get(r.store, OWNER_KEY, garbage)
           r1 == Set(r, OWNER_KEY, new_owner)
       IN  Emit(r1, <<"ChangeOwner", owner, new_owner>>)

pause(r, caller, garbage) ==
  IF ~(is_owner(r.store, caller, garbage) /\ is_paused(r.store) = 0) THEN Exit(r)
  ELSE Emit(Set(r, PAUSE_KEY, 1), <<"Pause">>)

unpause(r, caller, garbage) ==
  IF ~(is_owner(r.store, caller, garbage) /\ is_paused(r.store) # 0) THEN Exit(r)
  ELSE Emit(Set(r, PAUSE_KEY, 0), <<"Unpause">>)

\* _transfer that emits Transfer before it updates the storage.
_transfer_event_first(r, from, to, value, memo) ==
  IF ~(is_paused(r.store) = 0) THEN Exit(r)
  ELSE LET from_balance == get_balance(r.store, from)
           to_balance == get_balance(r.store, to)
       IN  IF ~(from_balance >= value) THEN Exit(r)
           ELSE IF sub_exits(from_balance, value) THEN Exit(r)
           ELSE IF add_exits(to_balance, value) THEN Exit(r)
           ELSE LET r0 == Emit(r, <<"Transfer", from, to, value, memo>>)
                    r1 == Set(r0, _build_balance_key(from), sub(from_balance, value))
                IN  Set(r1, _build_balance_key(to), add(to_balance, value))

\* _transfer with unchecked arithmetic: no balance test, plain uint64 - and +.
_transfer_unchecked(r, from, to, value, memo) ==
  IF ~(is_paused(r.store) = 0) THEN Exit(r)
  ELSE LET from_balance == get_balance(r.store, from)
           to_balance == get_balance(r.store, to)
           r1 == Set(r, _build_balance_key(from), sub(from_balance, value))
           r2 == Set(r1, _build_balance_key(to), add(to_balance, value))
       IN  Emit(r2, <<"Transfer", from, to, value, memo>>)

_transfer(r, from, to, value, memo) ==
  IF ~(is_paused(r.store) = 0) THEN Exit(r)
  ELSE LET from_balance == get_balance(r.store, from)
           to_balance == get_balance(r.store, to)
       IN  IF ~(from_balance >= value) THEN Exit(r)
           ELSE IF sub_exits(from_balance, value) THEN Exit(r)
           ELSE IF add_exits(to_balance, value) THEN Exit(r)
           ELSE LET r1 == Set(r, _build_balance_key(from), sub(from_balance, value))
                    r2 == Set(r1, _build_balance_key(to), add(to_balance, value))
                IN  Emit(r2, <<"Transfer", from, to, value, memo>>)

transfer(r, caller, to, value, memo) == _transfer(r, caller, to, value, memo)

\* approve that adds the value to the stored allowance instead of replacing it.
approve_accumulate(r, caller, spender, value) ==
  Emit(Set(r, _build_allowance_key(caller, spender),
           add(get_allowance(r.store, caller, spender), value)),
       <<"Approval", caller, spender, value>>)

\* approve that refuses to run while the contract is paused.
approve_when_active(r, caller, spender, value) ==
  IF ~(is_paused(r.store) = 0) THEN Exit(r)
  ELSE Emit(Set(r, _build_allowance_key(caller, spender), value),
            <<"Approval", caller, spender, value>>)

approve(r, caller, spender, value) ==
  Emit(Set(r, _build_allowance_key(caller, spender), value),
       <<"Approval", caller, spender, value>>)

\* transfer_from that checks the allowance and leaves it as it is.
transfer_from_keep_allowance(r, caller, from, to, value, memo) ==
  LET allowance == get_allowance(r.store, from, caller)
  IN  IF sub_exits(allowance, value) THEN Exit(r)
      ELSE _transfer(r, from, to, value, memo)

\* transfer_from without the allowance: any caller moves any holder's tokens.
transfer_from_unapproved(r, caller, from, to, value, memo) ==
  _transfer(r, from, to, value, memo)

transfer_from(r, caller, from, to, value, memo) ==
  LET allowance == get_allowance(r.store, from, caller)
  IN  IF sub_exits(allowance, value) THEN Exit(r)
      ELSE _transfer(Set(r, _build_allowance_key(from, caller), sub(allowance, value)),
                     from, to, value, memo)

\* garbage: what the local buffer holds before chain_storage_get.
get_owner(r, garbage) == Emit(r, <<"Owner", chain_storage_get(r.store, OWNER_KEY, garbage)>>)

get_decimals == DECIMALS

\* Reads 8 bytes at SYMBOL, which has 5: tail is the 3 bytes that follow it.
get_symbol(tail) == SYMBOL \o tail

\* garbage: the value of the local total_supply before chain_storage_get.
get_total_supply(store, garbage) == chain_storage_get(store, TOTAL_SUPPLY_KEY, garbage)

\* ----------------------------------------------------------- invocations
\* What may follow the string literal SYMBOL in memory.
SymbolTails == {<<0, 0, 0>>, <<255, 255, 255>>}

\* What the local total_supply of get_total_supply may hold when nothing is
\* stored: it is not initialised.
SupplyGarbage(store) ==
  IF chain_storage_size_get(store, TOTAL_SUPPLY_KEY) = 0 THEN Amounts ELSE {0}

\* What the local buffer `owner` of is_owner / change_owner may hold before
\* chain_storage_get: it is never initialised, so any address; it is
\* overwritten, and so irrelevant, once an owner is stored.
Garbage(store) ==
  IF chain_storage_size_get(store, OWNER_KEY) = 0 THEN Addresses ELSE {Addr(0)}

NoAddr == <<>>

Call(op, caller, a1, a2, value, memo) ==
  [op |-> op, caller |-> caller, a1 |-> a1, a2 |-> a2, value |-> value, memo |-> memo,
   ok |-> TRUE, ret |-> <<>>]

\* One invocation with run r.  A run that exits ends in exit(1): the
\* invocation fails and the host discards the writes the run issued (they
\* stay recorded in trace).  A run that returns has its writes applied.
Run(call, r) ==
  /\ last.op = "none"
  /\ steps < MaxSteps
  /\ steps' = steps + 1
  /\ pre' = storage
  /\ trace' = r.trace
  /\ last' = [call EXCEPT !.ok = r.ok, !.ret = IF r.ok THEN r.ret ELSE <<>>]
  /\ storage' = IF r.ok THEN r.store ELSE storage

Invoke(call, r) ==
  /\ Run(call, r)
  /\ UNCHANGED <<args, result>>

\* A freshly deployed contract: nothing stored, nothing invoked.
EmptyStore == [k \in {} |-> 0]

Init ==
  /\ storage = EmptyStore
  /\ pre = EmptyStore
  /\ last = Call("none", NoAddr, NoAddr, NoAddr, 0, 0)
  /\ trace = <<>>
  /\ steps = 0
  /\ args = <<>>
  /\ result = <<>>

InitCall ==
  \E caller \in Addresses, value \in Amounts :
    Invoke(Call("init", caller, NoAddr, NoAddr, value, 0),
           init(Start(storage), caller, value))

ChangeOwnerCall ==
  \E caller \in Addresses, garbage \in Garbage(storage), new_owner \in Addresses :
    Invoke(Call("change_owner", caller, new_owner, NoAddr, 0, 0),
           change_owner(Start(storage), caller, garbage, new_owner))

PauseCall ==
  \E caller \in Addresses, garbage \in Garbage(storage) :
    Invoke(Call("pause", caller, NoAddr, NoAddr, 0, 0),
           pause(Start(storage), caller, garbage))

UnpauseCall ==
  \E caller \in Addresses, garbage \in Garbage(storage) :
    Invoke(Call("unpause", caller, NoAddr, NoAddr, 0, 0),
           unpause(Start(storage), caller, garbage))

TransferCall ==
  \E caller \in Addresses, to \in Addresses, value \in Amounts, memo \in Memos :
    Invoke(Call("transfer", caller, caller, to, value, memo),
           transfer(Start(storage), caller, to, value, memo))

ApproveCall ==
  \E caller \in Addresses, spender \in Addresses, value \in Amounts :
    Invoke(Call("approve", caller, caller, spender, value, 0),
           approve(Start(storage), caller, spender, value))

TransferFromCall ==
  \E caller \in Addresses, from \in Addresses, to \in Addresses,
     value \in Amounts, memo \in Memos :
    Invoke(Call("transfer_from", caller, from, to, value, memo),
           transfer_from(Start(storage), caller, from, to, value, memo))

GetOwnerCall ==
  \E caller \in Addresses, garbage \in Garbage(storage) :
    Invoke(Call("get_owner", caller, NoAddr, NoAddr, 0, 0),
           get_owner(Start(storage), garbage))

GetBalanceCall ==
  \E caller \in Addresses, address \in Addresses :
    Invoke(Call("get_balance", caller, address, NoAddr, 0, 0),
           Ret(Start(storage), get_balance(storage, address)))

IsPausedCall ==
  \E caller \in Addresses :
    Invoke(Call("is_paused", caller, NoAddr, NoAddr, 0, 0),
           Ret(Start(storage), is_paused(storage)))

GetAllowanceCall ==
  \E caller \in Addresses, owner \in Addresses, spender \in Addresses :
    Invoke(Call("get_allowance", caller, owner, spender, 0, 0),
           Ret(Start(storage), get_allowance(storage, owner, spender)))

GetDecimalsCall ==
  \E caller \in Addresses :
    Invoke(Call("get_decimals", caller, NoAddr, NoAddr, 0, 0),
           Ret(Start(storage), get_decimals))

GetSymbolCall ==
  \E caller \in Addresses, tail \in SymbolTails :
    Invoke(Call("get_symbol", caller, NoAddr, NoAddr, 0, 0),
           Ret(Start(storage), get_symbol(tail)))

GetTotalSupplyCall ==
  \E caller \in Addresses, garbage \in SupplyGarbage(storage) :
    Invoke(Call("get_total_supply", caller, NoAddr, NoAddr, 0, 0),
           Ret(Start(storage), get_total_supply(storage, garbage)))

\* The host has reported the outcome and is ready for the next invocation.
Return ==
  /\ last.op # "none"
  /\ last' = Call("none", NoAddr, NoAddr, NoAddr, 0, 0)
  /\ pre' = storage
  /\ trace' = <<>>
  /\ UNCHANGED <<storage, steps, args, result>>

Next ==
  \/ Return
  \/ InitCall
  \/ TransferCall
  \/ ApproveCall
  \/ TransferFromCall
  \/ ChangeOwnerCall
  \/ PauseCall
  \/ UnpauseCall
  \/ GetOwnerCall
  \/ GetBalanceCall
  \/ IsPausedCall
  \/ GetAllowanceCall
  \/ GetDecimalsCall
  \/ GetSymbolCall
  \/ GetTotalSupplyCall

Spec == Init /\ [][Next]_vars

\* ------------------------------------------------ reading a state
\* The entry under a key: <<value>> when present, <<>> when absent.
Stored(store, key) == IF key \in DOMAIN store THEN <<store[key]>> ELSE <<>>

Keys == (DOMAIN storage) \cup (DOMAIN pre)

\* Every entry except those under the keys in K is as before the invocation.
UnchangedExcept(K) == \A k \in Keys \ K : Stored(storage, k) = Stored(pre, k)

RECURSIVE SumBalances(_, _)
SumBalances(store, S) ==
  IF S = {} THEN 0
  ELSE LET a == CHOOSE x \in S : TRUE
       IN  get_balance(store, a) + SumBalances(store, S \ {a})

Writes(tr) == SelectSeq(tr, LAMBDA e : e[1] = "set")
Events(tr) == SelectSeq(tr, LAMBDA e : e[1] # "set")

Called(op) == last.op = op
Succeeded(op) == last.op = op /\ last.ok
Failed(op) == last.op = op /\ ~last.ok

\* init has succeeded at some time: only init writes TOTAL_SUPPLY.
InitDone(store) == TOTAL_SUPPLY_KEY \in DOMAIN store
OwnerStored(store) == OWNER_KEY \in DOMAIN store
CallerIsStoredOwner == OwnerStored(pre) /\ pre[OWNER_KEY] = last.caller

\* ------------------------------------------------------------------ C1
\* C1: after a successful init, in every reachable state the sum of all
\* stored balances equals the stored total_supply.
C1_SupplyConserved ==
  InitDone(storage) => SumBalances(storage, Addresses) = storage[TOTAL_SUPPLY_KEY]

\* ------------------------------------------------------------------ C2
\* C2: a transfer made while not paused and with balance(from) >= v succeeds,
\* balance(from) goes down by v, balance(to) goes up by v, total_supply stays.
C2_TransferEffect ==
  (Called("transfer") /\ is_paused(pre) = 0
     /\ get_balance(pre, last.caller) >= last.value)
  => /\ last.ok
     /\ get_balance(storage, last.caller) = get_balance(pre, last.caller) - last.value
     /\ get_balance(storage, last.a2) = get_balance(pre, last.a2) + last.value
     /\ Stored(storage, TOTAL_SUPPLY_KEY) = Stored(pre, TOTAL_SUPPLY_KEY)

\* ------------------------------------------------------------------ C3
\* C3: no invocation issues a storage write and then aborts.
C3_NoWriteBeforeAbort ==
  (last.op # "none" /\ ~last.ok) => Len(Writes(trace)) = 0

\* ------------------------------------------------------------------ C4
\* C4: while the pause flag is set every transfer and transfer_from fails, no
\* invocation started in a paused state changes a balance, and a failed
\* transfer leaves the whole store as it was.
C4_PausedBlocksTransfers ==
  /\ (is_paused(pre) # 0 /\ (Called("transfer") \/ Called("transfer_from"))) => ~last.ok
  /\ (is_paused(pre) # 0 /\ last.op # "none")
       => \A a \in Addresses : get_balance(storage, a) = get_balance(pre, a)
  /\ Failed("transfer") => storage = pre

\* ------------------------------------------------------------------ C5
\* C5: a transfer by a caller whose balance is smaller than the value fails
\* and leaves every stored entry unchanged; a successful transfer never
\* sends more than the caller held.
C5_InsufficientBalanceFails ==
  /\ (Called("transfer") /\ get_balance(pre, last.caller) < last.value)
       => (~last.ok /\ storage = pre /\ Len(Writes(trace)) = 0)
  /\ Succeeded("transfer") => last.value <= get_balance(pre, last.caller)

\* C5 witness: after init, a holder with a positive balance asks for more
\* than it holds, and the call has failed.
C5_Witness ==
  /\ Failed("transfer")
  /\ InitDone(pre)
  /\ is_paused(pre) = 0
  /\ get_balance(pre, last.caller) > 0
  /\ get_balance(pre, last.caller) < last.value

\* ------------------------------------------------------------------ C6
\* C6: once an owner is stored every init fails and changes nothing, and the
\* owner entry is never removed, so at most one init succeeds; the first
\* init by A with value s gives owner = A, balance(A) = s, total_supply = s
\* and an unpaused contract.
C6_InitOnce ==
  /\ (Called("init") /\ OwnerStored(pre)) => (~last.ok /\ storage = pre)
  /\ OwnerStored(pre) => OwnerStored(storage)
  /\ Succeeded("init") =>
       /\ ~OwnerStored(pre)
       /\ Stored(storage, OWNER_KEY) = <<last.caller>>
       /\ get_balance(storage, last.caller) = last.value
       /\ Stored(storage, TOTAL_SUPPLY_KEY) = <<last.value>>
       /\ is_paused(storage) = 0

\* ------------------------------------------------------------------ C7
\* C7: pause succeeds only for the stored owner while Active and sets the
\* flag; unpause succeeds only for the stored owner while Paused and clears
\* it; a failed pause or unpause leaves the flag alone; nothing else changes
\* the flag; a transfer with sufficient balance succeeds when not paused.
C7_PauseStateMachine ==
  /\ Succeeded("pause") =>
       (CallerIsStoredOwner /\ is_paused(pre) = 0 /\ is_paused(storage) # 0)
  /\ Succeeded("unpause") =>
       (CallerIsStoredOwner /\ is_paused(pre) # 0 /\ is_paused(storage) = 0)
  /\ (Called("pause") /\ CallerIsStoredOwner /\ is_paused(pre) = 0) => last.ok
  /\ (Called("unpause") /\ CallerIsStoredOwner /\ is_paused(pre) # 0) => last.ok
  /\ (Failed("pause") \/ Failed("unpause")) => is_paused(storage) = is_paused(pre)
  /\ is_paused(storage) # is_paused(pre) => (Succeeded("pause") \/ Succeeded("unpause"))
  /\ (Called("transfer") /\ is_paused(pre) = 0
        /\ get_balance(pre, last.caller) >= last.value) => last.ok

\* ------------------------------------------------------------------ C8
\* C8: approve(spender, v) by caller o always succeeds, leaves allowance(o,
\* spender) equal to v whatever it was before, and changes no other stored
\* entry: no other allowance, no balance, not owner, pause flag or supply.
C8_ApproveOverwrites ==
  Called("approve") =>
    /\ last.ok
    /\ get_allowance(storage, last.caller, last.a2) = last.value
    /\ UnchangedExcept({_build_allowance_key(last.caller, last.a2)})
    /\ (last.a2 # last.caller =>
          get_allowance(storage, last.a2, last.caller)
            = get_allowance(pre, last.a2, last.caller))
    /\ \A a \in Addresses : get_balance(storage, a) = get_balance(pre, a)

\* C8 witness: a second approve for the same pair with a different value,
\* where the sum of the two values is not the new value.
C8_Witness ==
  /\ Succeeded("approve")
  /\ last.a2 # last.caller
  /\ get_allowance(pre, last.caller, last.a2) > 0
  /\ last.value > 0
  /\ last.value # get_allowance(pre, last.caller, last.a2)
  /\ get_allowance(storage, last.caller, last.a2) = last.value

\* ------------------------------------------------------------------ C9
\* C9: transfer_from by caller s fails with no state change when value >
\* allowance(from, s); when it succeeds allowance(from, s) goes down by
\* value, balance(from) goes down by value, balance(to) goes up by value,
\* and no other stored entry changes.
C9_TransferFromEffect ==
  /\ (Called("transfer_from") /\ last.value > get_allowance(pre, last.a1, last.caller))
       => (~last.ok /\ storage = pre)
  /\ Succeeded("transfer_from") =>
       /\ get_allowance(storage, last.a1, last.caller)
            = get_allowance(pre, last.a1, last.caller) - last.value
       /\ get_balance(storage, last.a1) = get_balance(pre, last.a1) - last.value
       /\ get_balance(storage, last.a2) = get_balance(pre, last.a2) + last.value
       /\ UnchangedExcept({_build_allowance_key(last.a1, last.caller),
                           _build_balance_key(last.a1), _build_balance_key(last.a2)})

\* ----------------------------------------------------------------- C10
\* C10: change_owner succeeds only when the caller equals the stored owner; a
\* failed call leaves the owner entry alone; after a success the stored
\* owner is new_owner, the previous owner (if different) no longer passes
\* is_owner, and ChangeOwner(old, new) carries the owner stored before.
C10_ChangeOwner ==
  /\ Succeeded("change_owner") =>
       /\ CallerIsStoredOwner
       /\ Stored(storage, OWNER_KEY) = <<last.a1>>
       /\ (last.a1 # last.caller =>
             \A g \in Garbage(storage) : ~is_owner(storage, last.caller, g))
       /\ Events(trace) = << <<"ChangeOwner", pre[OWNER_KEY], last.a1>> >>
  /\ (Called("change_owner") /\ CallerIsStoredOwner) => last.ok
  /\ Failed("change_owner") => Stored(storage, OWNER_KEY) = Stored(pre, OWNER_KEY)

\* ----------------------------------------------------------------- C11
\* The run of the invocation recorded in last, started on the store st with
\* the given contents of the uninitialised locals.
Rerun(st, gOwner, gSupply, tail) ==
  CASE last.op = "approve" -> approve(Start(st), last.caller, last.a2, last.value)
    [] last.op = "change_owner" -> change_owner(Start(st), last.caller, gOwner, last.a1)
    [] last.op = "get_owner" -> get_owner(Start(st), gOwner)
    [] last.op = "get_balance" -> Ret(Start(st), get_balance(st, last.a1))
    [] last.op = "get_allowance" -> Ret(Start(st), get_allowance(st, last.a1, last.a2))
    [] last.op = "get_total_supply" -> Ret(Start(st), get_total_supply(st, gSupply))
    [] last.op = "get_decimals" -> Ret(Start(st), get_decimals)
    [] last.op = "get_symbol" -> Ret(Start(st), get_symbol(tail))
    [] OTHER -> Start(st)

\* The store with the pause flag set the other way.
OtherPauseState(st) == chain_storage_set(st, PAUSE_KEY, IF is_paused(st) = 0 THEN 1 ELSE 0)

NotGatedByPause ==
  {"approve", "change_owner", "get_owner", "get_balance", "get_allowance",
   "get_total_supply", "get_decimals", "get_symbol"}

\* The contents of the uninitialised locals that the recorded invocation reads.
OwnerGarbageRead ==
  IF last.op \in {"change_owner", "get_owner"} THEN Garbage(pre) ELSE {Addr(0)}
SupplyGarbageRead ==
  IF last.op = "get_total_supply" THEN SupplyGarbage(pre) ELSE {0}
SymbolTailRead ==
  IF last.op = "get_symbol" THEN SymbolTails ELSE {<<0, 0, 0>>}

\* C11: approve, change_owner and the read functions do the same (outcome,
\* return value, events, writes) from a store and from the same store with
\* the pause flag the other way, and none of them changes the pause flag.
C11_PauseGatesOnlyTransfers ==
  last.op \in NotGatedByPause =>
    /\ Stored(storage, PAUSE_KEY) = Stored(pre, PAUSE_KEY)
    /\ \E gO \in OwnerGarbageRead, gS \in SupplyGarbageRead, t \in SymbolTailRead :
         LET r == Rerun(pre, gO, gS, t)
         IN  /\ r.ok = last.ok
             /\ r.trace = trace
             /\ (r.ok => (r.ret = last.ret /\ r.store = storage))
    /\ \A gO \in OwnerGarbageRead, gS \in SupplyGarbageRead, t \in SymbolTailRead :
         LET r1 == Rerun(pre, gO, gS, t)
             r2 == Rerun(OtherPauseState(pre), gO, gS, t)
         IN  /\ r1.ok = r2.ok
             /\ r1.ret = r2.ret
             /\ r1.trace = r2.trace
             /\ \A k \in ((DOMAIN r1.store) \cup (DOMAIN r2.store)) \ {PAUSE_KEY} :
                  Stored(r1.store, k) = Stored(r2.store, k)
             /\ is_paused(r1.store) = is_paused(pre)
             /\ is_paused(r2.store) = is_paused(OtherPauseState(pre))

\* C11 witness: after init, an approve made while the contract is paused has
\* succeeded.
C11_Witness ==
  /\ Succeeded("approve")
  /\ InitDone(pre)
  /\ is_paused(pre) # 0
  /\ last.value > 0

\* ----------------------------------------------------------------- C12
WritesTo(tr, key) == SelectSeq(tr, LAMBDA e : e[1] = "set" /\ e[2] = key)

\* C12: only a successful init writes total_supply: every other invocation,
\* and a failed init, issues no write to it and leaves it as stored; once
\* init has succeeded it never changes again, and get_total_supply returns
\* the stored value, which a successful init sets to its argument.
C12_SupplyWrittenOnlyByInit ==
  /\ (last.op # "none" /\ ~Succeeded("init")) =>
       /\ Stored(storage, TOTAL_SUPPLY_KEY) = Stored(pre, TOTAL_SUPPLY_KEY)
       /\ Len(WritesTo(trace, TOTAL_SUPPLY_KEY)) = 0
  /\ InitDone(pre) => Stored(storage, TOTAL_SUPPLY_KEY) = Stored(pre, TOTAL_SUPPLY_KEY)
  /\ Succeeded("init") => Stored(storage, TOTAL_SUPPLY_KEY) = <<last.value>>
  /\ (Called("get_total_supply") /\ InitDone(pre)) =>
       (last.ok /\ last.ret = <<pre[TOTAL_SUPPLY_KEY]>>)

\* C12 witness: get_total_supply is called after init and after the owner's
\* balance has moved away from the supply, and returns the supply.
C12_Witness ==
  /\ Succeeded("get_total_supply")
  /\ InitDone(pre)
  /\ pre[TOTAL_SUPPLY_KEY] > 0
  /\ get_balance(pre, pre[OWNER_KEY]) # pre[TOTAL_SUPPLY_KEY]
  /\ last.ret = <<pre[TOTAL_SUPPLY_KEY]>>

\* ----------------------------------------------------------------- C13
IsWrite(e) == e[1] = "set"

\* The event e is the last thing the invocation did and the only event.
SoleEventLast(e) ==
  /\ Events(trace) = <<e>>
  /\ Len(trace) > 0
  /\ trace[Len(trace)] = e

\* Position of the first occurrence of x in the sequence tr, 0 if none.
PositionIn(tr, x) ==
  IF \E i \in 1 .. Len(tr) : tr[i] = x
  THEN CHOOSE i \in 1 .. Len(tr) : tr[i] = x /\ \A j \in 1 .. (i - 1) : tr[j] # x
  ELSE 0

\* C13: an invocation that aborts emits no event; no write follows an event,
\* except that init writes the minted balance and supply after Owner; a
\* successful transfer or transfer_from emits exactly one Transfer(from, to,
\* value, memo) after its writes, approve exactly one Approval(owner,
\* spender, value) after its write, and init emits Owner after the owner
\* write and then Mint after the balance and supply writes.
C13_EventsAfterWrites ==
  /\ (last.op # "none" /\ ~last.ok) => Events(trace) = <<>>
  /\ \A i \in 1 .. Len(trace) : \A j \in (i + 1) .. Len(trace) :
       (~IsWrite(trace[i]) /\ IsWrite(trace[j]))
         => (last.op = "init" /\ trace[i][1] = "Owner" /\ trace[j][2] # OWNER_KEY)
  /\ Succeeded("transfer") =>
       /\ SoleEventLast(<<"Transfer", last.caller, last.a2, last.value, last.memo>>)
       /\ Len(Writes(trace)) = 2
  /\ Succeeded("transfer_from") =>
       /\ SoleEventLast(<<"Transfer", last.a1, last.a2, last.value, last.memo>>)
       /\ Len(Writes(trace)) = 3
  /\ Succeeded("approve") =>
       /\ SoleEventLast(<<"Approval", last.caller, last.a2, last.value>>)
       /\ Len(Writes(trace)) = 1
  /\ Succeeded("init") =>
       /\ Events(trace) = << <<"Owner", last.caller>>, <<"Mint", last.caller, last.value>> >>
       /\ PositionIn(trace, <<"set", OWNER_KEY, last.caller>>) > 0
       /\ PositionIn(trace, <<"set", OWNER_KEY, last.caller>>)
            < PositionIn(trace, <<"Owner", last.caller>>)
       /\ PositionIn(trace, <<"Owner", last.caller>>)
            < PositionIn(trace, <<"Mint", last.caller, last.value>>)
       /\ trace[Len(trace)] = <<"Mint", last.caller, last.value>>
       /\ Len(Writes(trace)) = 3

\* C13 witness: a successful transfer_from of a positive value: three writes,
\* then the one Transfer event.
C13_Witness ==
  /\ Succeeded("transfer_from")
  /\ last.value > 0
  /\ Len(trace) = 4
  /\ trace[4] = <<"Transfer", last.a1, last.a2, last.value, last.memo>>

\* ------------------------------------------------- the safe math alone
\* add and sub applied to every pair of values of the integer type.
Idle ==
  /\ storage = EmptyStore
  /\ pre = EmptyStore
  /\ last = Call("none", NoAddr, NoAddr, NoAddr, 0, 0)
  /\ trace = <<>>

MathInit ==
  /\ Idle
  /\ steps = 0
  /\ args \in U64 \X U64
  /\ result = <<>>

AddCall ==
  /\ result = <<>>
  /\ result' = IF add_exits(args[1], args[2]) THEN <<"add", "exit">>
               ELSE <<"add", "return", add(args[1], args[2])>>
  /\ UNCHANGED <<storage, pre, last, trace, steps, args>>

SubCall ==
  /\ result = <<>>
  /\ result' = IF sub_exits(args[1], args[2]) THEN <<"sub", "exit">>
               ELSE <<"sub", "return", sub(args[1], args[2])>>
  /\ UNCHANGED <<storage, pre, last, trace, steps, args>>

\* The next pair of arguments.
MathAgain ==
  /\ result # <<>>
  /\ steps < MaxSteps
  /\ steps' = steps + 1
  /\ args' \in U64 \X U64
  /\ result' = <<>>
  /\ UNCHANGED <<storage, pre, last, trace>>

MathNext == AddCall \/ SubCall \/ MathAgain

SpecMath == MathInit /\ [][MathNext]_vars

\* ----------------------------------------------------------------- C14
\* C14: add(a, b) exits exactly when a + b exceeds the largest value of the
\* type and otherwise returns a + b; sub(a, b) exits exactly when b > a and
\* otherwise returns a - b.
C14_CheckedArithmetic ==
  result # <<>> =>
    /\ result[1] = "add" =>
         /\ (result[2] = "exit") <=> (args[1] + args[2] > UMax)
         /\ result[2] = "return" => result[3] = args[1] + args[2]
    /\ result[1] = "sub" =>
         /\ (result[2] = "exit") <=> (args[2] > args[1])
         /\ result[2] = "return" => result[3] = args[1] - args[2]

\* C14 witness: add(MAX, 1) has exited.
C14_Witness ==
  /\ args = <<UMax, 1>>
  /\ result = <<"add", "exit">>

\* ---------------------------------------------- the key builders alone
\* Addresses chosen to bring keys close: differing in the first byte, in
\* the last byte, and one that starts with the bytes of a key prefix.
AddrTail(b) == [i \in 1 .. ADDRESS_SIZE |-> IF i = ADDRESS_SIZE THEN b ELSE 0]
AddrText(text) == [i \in 1 .. ADDRESS_SIZE |-> IF i <= Len(text) THEN text[i] ELSE 0]
KeyAddresses == {Addr(1), Addr(2), AddrTail(1), AddrText(ALLOWANCES_PREFIX)}

SingletonKeys == {OWNER_KEY, PAUSE_KEY, TOTAL_SUPPLY_KEY}

\* A store that holds every kind of entry: the three singletons, the balance
\* of o2 and the allowance of (o2, s2).
FullStore(o2, s2) ==
  LET s1 == chain_storage_set(EmptyStore, OWNER_KEY, o2)
      s2a == chain_storage_set(s1, PAUSE_KEY, 1)
      s3 == chain_storage_set(s2a, TOTAL_SUPPLY_KEY, 1)
      s4 == chain_storage_set(s3, _build_balance_key(o2), 1)
  IN  chain_storage_set(s4, _build_allowance_key(o2, s2), 1)

\* args = <<o, s, o2, s2>>: two (owner, spender) pairs.
KeysInit ==
  /\ Idle
  /\ steps = 0
  /\ args \in KeyAddresses \X KeyAddresses \X KeyAddresses \X KeyAddresses
  /\ result = <<>>

BuildBalanceKeys ==
  /\ result = <<>>
  /\ result' = <<"balance", _build_balance_key(args[1]), _build_balance_key(args[3])>>
  /\ UNCHANGED <<storage, pre, last, trace, steps, args>>

BuildAllowanceKeys ==
  /\ result = <<>>
  /\ result' = <<"allowance", _build_allowance_key(args[1], args[2]),
                 _build_allowance_key(args[3], args[4])>>
  /\ UNCHANGED <<storage, pre, last, trace, steps, args>>

\* The balance of o is written into the full store of (o2, s2).
WriteBalance ==
  /\ result = <<>>
  /\ result' = <<"write_balance",
                 chain_storage_set(FullStore(args[3], args[4]),
                                   _build_balance_key(args[1]), 2)>>
  /\ UNCHANGED <<storage, pre, last, trace, steps, args>>

\* The allowance of (o, s) is written into the full store of (o2, s2).
WriteAllowance ==
  /\ result = <<>>
  /\ result' = <<"write_allowance",
                 chain_storage_set(FullStore(args[3], args[4]),
                                   _build_allowance_key(args[1], args[2]), 2)>>
  /\ UNCHANGED <<storage, pre, last, trace, steps, args>>

KeysNext == BuildBalanceKeys \/ BuildAllowanceKeys \/ WriteBalance \/ WriteAllowance

SpecKeys == KeysInit /\ [][KeysNext]_vars

\* ----------------------------------------------------------------- C15
AllBalanceKeys == {_build_balance_key(a) : a \in KeyAddresses}
AllAllowanceKeys == {_build_allowance_key(a, b) : a \in KeyAddresses, b \in KeyAddresses}

\* C15: two balance keys are equal only for equal addresses, two allowance
\* keys only for equal owners and equal spenders, the three singleton keys
\* differ, no key of one class is a key of another, and a write of one
\* balance or one allowance leaves every other entry as it was.
C15_KeysCollisionFree ==
  result # <<>> =>
    /\ Cardinality(SingletonKeys) = 3
    /\ result[1] = "balance" =>
         /\ result[2] = result[3] => args[1] = args[3]
         /\ result[2] \notin SingletonKeys \cup AllAllowanceKeys
    /\ result[1] = "allowance" =>
         /\ result[2] = result[3] => (args[1] = args[3] /\ args[2] = args[4])
         /\ args[1] # args[2] =>
              result[2] # _build_allowance_key(args[2], args[1])
         /\ result[2] \notin SingletonKeys \cup AllBalanceKeys
    /\ result[1] \in {"write_balance", "write_allowance"} =>
         LET before == FullStore(args[3], args[4])
             after == result[2]
         IN  /\ \A k \in SingletonKeys : Stored(after, k) = Stored(before, k)
             /\ \A a \in KeyAddresses :
                  (result[1] = "write_balance" /\ a = args[1])
                    \/ get_balance(after, a) = get_balance(before, a)
             /\ \A a \in KeyAddresses, b \in KeyAddresses :
                  (result[1] = "write_allowance" /\ a = args[1] /\ b = args[2])
                    \/ get_allowance(after, a, b) = get_allowance(before, a, b)
             /\ result[1] = "write_balance" => get_balance(after, args[1]) = 2
             /\ result[1] = "write_allowance" => get_allowance(after, args[1], args[2]) = 2

\* C15 witness: the allowance keys of (o, s) and (s, o), o # s, have been
\* built and differ.
C15_Witness ==
  /\ result # <<>>
  /\ result[1] = "allowance"
  /\ args[1] # args[2]
  /\ args[3] = args[2]
  /\ args[4] = args[1]
  /\ result[2] # result[3]

\* ------------------------------------- the legacy contract (src/c/erc20)
\* Balances are stored as uint64_t (8 bytes) and read back through
\* from_bytes, which takes the first 4 bytes as a uint32_t and returns them
\* as int.  Scaled down: the stored word has 2 * Width bits, int has Width.
WordModulus == 2 ^ (2 * Width)
WordMax == WordModulus - 1
IntModulus == 2 ^ Width
\* uint32_t to int: the values from 2^(w-1) up are the negative ones.
ToInt(x) == IF x >= IntModulus \div 2 THEN x - IntModulus ELSE x
\* int to uint64_t: modulo 2^64 (sign extension).
ToWord(i) == i % WordModulus

ErcAmounts == {0, 1, IntModulus \div 2, IntModulus, WordMax}

ADDR_SIZE == 35
OWNER == <<79, 87, 78, 69, 82, 0>>
IS_PAUSE == <<73, 83, 95, 80, 65, 85, 83, 69, 0>>

\* chain_get_creator: the address that deployed the contract.
Creator == Addr(1)

\* <<>> is the null pointer returned for an absent key, <<v>> the malloc'd
\* copy of the value.
sdk_storage_get(store, key) ==
  IF chain_storage_size_get(store, key) = 0 THEN <<>> ELSE <<store[key]>>

sdk_storage_set(r, key, value) == Set(r, key, value)

\* over: the bytes that lie behind a value shorter than 4 bytes (the pause
\* flag is stored as 1 byte); 0 for a value of 4 bytes or more.
from_bytes(bytes, over) ==
  IF bytes = <<>> THEN 0 ELSE ToInt((bytes[1] + 2 * over) % IntModulus)

sdk_caller_is_creator(caller) == IF Creator = caller THEN 1 ELSE 0

\* With no owner stored memcmp reads through the null pointer; nullEqual
\* is what that comparison gives.
caller_is_owner(store, caller, nullEqual) ==
  LET owner == sdk_storage_get(store, OWNER)
  IN  IF owner = <<>> THEN nullEqual ELSE owner[1] = caller

set_owner(r, caller, nullEqual, owner) ==
  IF ~caller_is_owner(r.store, caller, nullEqual)
  THEN Ret(r, -1)
  ELSE Ret(sdk_storage_set(r, OWNER, owner), 0)

erc20_pause(r, caller, nullEqual) ==
  IF ~caller_is_owner(r.store, caller, nullEqual)
  THEN Ret(r, -1)
  ELSE Ret(sdk_storage_set(r, IS_PAUSE, 1), 0)

erc20_unpause(r, caller, nullEqual) ==
  IF ~caller_is_owner(r.store, caller, nullEqual)
  THEN Ret(r, -1)
  ELSE Ret(sdk_storage_set(r, IS_PAUSE, 0), 0)

is_pausing(store, over) == from_bytes(sdk_storage_get(store, IS_PAUSE), over)

change_balance(r, to, amount, sign) ==
  LET to_balance == ToWord(from_bytes(sdk_storage_get(r.store, to), 0))
  IN  IF sign < 0
      THEN IF to_balance < amount
           THEN Ret(r, -1)
           ELSE Ret(sdk_storage_set(r, to, to_balance - amount), 0)
      ELSE Ret(sdk_storage_set(r, to, (to_balance + amount) % WordModulus), 0)

set_owner_to_creator(r) == Ret(sdk_storage_set(r, OWNER, Creator), 0)

\* null1, null2: the results of the two comparisons through the null
\* pointer, were they to happen.
mint(r, caller, amount, null1, null2) ==
  LET r1 == IF ~caller_is_owner(r.store, caller, null1)
               /\ sdk_storage_get(r.store, OWNER) = <<>>
            THEN set_owner_to_creator(r)
            ELSE r
  IN  IF ~caller_is_owner(r1.store, caller, null2)
      THEN Ret(r1, -1)
      ELSE LET r2 == change_balance(r1, caller, amount, 1)
           IN  IF r2.ret # <<-1>>
               THEN Ret(Emit(r2, <<"Mint", caller, amount>>), r2.ret[1])
               ELSE r2

erc20_get_balance(store, address) == from_bytes(sdk_storage_get(store, address), 0)

erc20_transfer(r, caller, to, amount, over) ==
  IF is_pausing(r.store, over) # 0
  THEN Ret(r, -1)
  ELSE LET r1 == change_balance(r, caller, amount, -1)
           r2 == IF r1.ret # <<-1>> THEN change_balance(r1, to, amount, 1) ELSE r1
       IN  IF r2.ret # <<-1>>
           THEN Ret(Emit(r2, <<"Transfer", caller, to, amount>>), r2.ret[1])
           ELSE Ret(r2, -1)

\* ---------------------------------------- the legacy contract's invocations
NullEqual(store) == IF sdk_storage_get(store, OWNER) = <<>> THEN BOOLEAN ELSE {FALSE}
Over(store) == IF sdk_storage_get(store, IS_PAUSE) = <<>> THEN {0} ELSE {0, 1}

Erc20Init ==
  /\ Idle
  /\ steps = 0
  /\ args = <<>>
  /\ result = <<>>

MintCall ==
  \E caller \in Addresses, amount \in ErcAmounts,
     null1 \in NullEqual(storage), null2 \in NullEqual(storage) :
    Invoke(Call("mint", caller, NoAddr, NoAddr, amount, 0),
           mint(Start(storage), caller, amount, null1, null2))

Erc20TransferCall ==
  \E caller \in Addresses, to \in Addresses, amount \in ErcAmounts, over \in Over(storage) :
    Invoke(Call("transfer", caller, caller, to, amount, 0),
           erc20_transfer(Start(storage), caller, to, amount, over))

SetOwnerCall ==
  \E caller \in Addresses, owner \in Addresses, nullEqual \in NullEqual(storage) :
    Invoke(Call("set_owner", caller, owner, NoAddr, 0, 0),
           set_owner(Start(storage), caller, nullEqual, owner))

Erc20PauseCall ==
  \E caller \in Addresses, nullEqual \in NullEqual(storage) :
    Invoke(Call("pause", caller, NoAddr, NoAddr, 0, 0),
           erc20_pause(Start(storage), caller, nullEqual))

Erc20UnpauseCall ==
  \E caller \in Addresses, nullEqual \in NullEqual(storage) :
    Invoke(Call("unpause", caller, NoAddr, NoAddr, 0, 0),
           erc20_unpause(Start(storage), caller, nullEqual))

Erc20GetBalanceCall ==
  \E caller \in Addresses, address \in Addresses :
    Invoke(Call("get_balance", caller, address, NoAddr, 0, 0),
           Ret(Start(storage), erc20_get_balance(storage, address)))

IsPausingCall ==
  \E caller \in Addresses, over \in Over(storage) :
    Invoke(Call("is_pausing", caller, NoAddr, NoAddr, 0, 0),
           Ret(Start(storage), is_pausing(storage, over)))

Erc20Next ==
  \/ Return
  \/ MintCall
  \/ Erc20TransferCall
  \/ SetOwnerCall
  \/ Erc20PauseCall
  \/ Erc20UnpauseCall
  \/ Erc20GetBalanceCall
  \/ IsPausingCall

SpecErc20 == Erc20Init /\ [][Erc20Next]_vars

\* ----------------------------------------------------------------- C16
Erc20OwnerStored(store) == OWNER \in DOMAIN store

\* C16: while no owner is stored, a mint by a caller who is not the creator
\* returns -1, leaves the OWNER slot empty and changes no balance; a mint
\* by the creator stores the creator as OWNER and credits the creator.
C16_MintBootstrapsOnlyCreator ==
  (Called("mint") /\ ~Erc20OwnerStored(pre)) =>
    /\ last.caller # Creator =>
         /\ last.ret = <<-1>>
         /\ ~Erc20OwnerStored(storage)
         /\ \A a \in Addresses : Stored(storage, a) = Stored(pre, a)
    /\ last.caller = Creator =>
         /\ Stored(storage, OWNER) = <<Creator>>
         /\ last.ret = <<0>>
         /\ Writes(trace)[Len(Writes(trace))] =
              <<"set", Creator, (ToWord(erc20_get_balance(pre, Creator)) + last.value) % WordModulus>>

\* ----------------------------------------------------------------- C17
StoredBalance(store, a) == IF a \in DOMAIN store THEN store[a] ELSE 0

\* The account credited by the last invocation, if it credited one.
Credited ==
  IF Called("mint") /\ last.ret = <<0>> THEN {last.caller}
  ELSE IF Called("transfer") /\ last.ret = <<0>> /\ last.a2 # last.caller THEN {last.a2}
  ELSE {}

\* C17: a successful credit leaves get_balance equal to the stored balance
\* before plus the amount; a credit whose sum passes the largest stored
\* value fails and writes nothing; no credit lowers a balance.
C17_CreditExact ==
  /\ \A a \in Credited :
       /\ erc20_get_balance(storage, a) = StoredBalance(pre, a) + last.value
       /\ StoredBalance(storage, a) >= StoredBalance(pre, a)
  /\ (Called("mint") /\ StoredBalance(pre, last.caller) + last.value > WordMax) =>
       (last.ret = <<-1>> /\ Writes(trace) = <<>>)

\* ------------------------------------------- invocations with a spending record
\* result records, for each pair <<holder, spender>>, the value of the
\* holder's latest approve for the spender and the sum of the values the
\* spender has moved with transfer_from since, and the number of those
\* transfers: <<value, spent, transfers>>, or <<>> while the holder has not
\* approved the spender.
NoRecord == [p \in Addresses \X Addresses |-> <<>>]

Record(rec, call, r) ==
  IF ~r.ok THEN rec
  ELSE IF call.op = "approve"
       THEN [rec EXCEPT ![<<call.caller, call.a2>>] = <<call.value, 0, 0>>]
  ELSE IF call.op = "transfer_from" /\ rec[<<call.a1, call.caller>>] # <<>>
       THEN [rec EXCEPT ![<<call.a1, call.caller>>] = <<@[1], @[2] + call.value, @[3] + 1>>]
  ELSE rec

\* One invocation from its start to the return to the host: Run followed
\* by Return, with the record brought up to date.
Tracked(call, r) ==
  /\ last.op = "none"
  /\ steps < MaxSteps
  /\ steps' = steps + 1
  /\ storage' = IF r.ok THEN r.store ELSE storage
  /\ pre' = storage'
  /\ result' = Record(result, call, r)
  /\ UNCHANGED <<last, trace, args>>

\* The contract as deployed, or as an init by the first address leaves it.
SpendInit ==
  /\ storage \in {EmptyStore}
       \cup {init(Start(EmptyStore), Addr(1), value).store : value \in Amounts}
  /\ pre = storage
  /\ last = Call("none", NoAddr, NoAddr, NoAddr, 0, 0)
  /\ trace = <<>>
  /\ steps = 0
  /\ args = <<>>
  /\ result = NoRecord

TrackedInit ==
  \E caller \in Addresses, value \in Amounts :
    Tracked(Call("init", caller, NoAddr, NoAddr, value, 0),
            init(Start(storage), caller, value))

TrackedChangeOwner ==
  \E caller \in Addresses, garbage \in Garbage(storage), new_owner \in Addresses :
    Tracked(Call("change_owner", caller, new_owner, NoAddr, 0, 0),
            change_owner(Start(storage), caller, garbage, new_owner))

TrackedPause ==
  \E caller \in Addresses, garbage \in Garbage(storage) :
    Tracked(Call("pause", caller, NoAddr, NoAddr, 0, 0),
            pause(Start(storage), caller, garbage))

TrackedUnpause ==
  \E caller \in Addresses, garbage \in Garbage(storage) :
    Tracked(Call("unpause", caller, NoAddr, NoAddr, 0, 0),
            unpause(Start(storage), caller, garbage))

TrackedTransfer ==
  \E caller \in Addresses, to \in Addresses, value \in Amounts, memo \in Memos :
    Tracked(Call("transfer", caller, caller, to, value, memo),
            transfer(Start(storage), caller, to, value, memo))

TrackedApprove ==
  \E caller \in Addresses, spender \in Addresses, value \in Amounts :
    Tracked(Call("approve", caller, caller, spender, value, 0),
            approve(Start(storage), caller, spender, value))

TrackedTransferFrom ==
  \E caller \in Addresses, from \in Addresses, to \in Addresses,
     value \in Amounts, memo \in Memos :
    Tracked(Call("transfer_from", caller, from, to, value, memo),
            transfer_from(Start(storage), caller, from, to, value, memo))

SpendNext ==
  \/ TrackedInit
  \/ TrackedTransfer
  \/ TrackedApprove
  \/ TrackedTransferFrom
  \/ TrackedChangeOwner
  \/ TrackedPause
  \/ TrackedUnpause

SpecSpend == SpendInit /\ [][SpendNext]_vars

\* ----------------------------------------------------------------- C18
\* C18: for every holder A and spender B, the values B has moved from A
\* with successful transfer_from calls since A's latest approve for B sum
\* to at most the value of that approve.
C18_SpendingBounded ==
  \A p \in Addresses \X Addresses :
    result[p] # <<>> => result[p][2] <= result[p][1]

\* C18 witness: a second successful transfer_from has used up an approval.
C18_Witness ==
  \E p \in Addresses \X Addresses :
    /\ p[1] # p[2]
    /\ result[p] = <<2, 2, 2>>
    /\ get_allowance(storage, p[1], p[2]) = 0

\* ----------------------------------------------------------------- C19
\* C19: once init has succeeded, an invocation after which balance(X) is
\* smaller than before is a successful transfer by X or a successful
\* transfer_from out of X whose caller had an allowance from X of at least
\* the value moved.
C19_DecreaseOnlyAuthorized ==
  \A X \in Addresses :
    (InitDone(pre) /\ get_balance(storage, X) < get_balance(pre, X)) =>
      \/ Succeeded("transfer") /\ last.caller = X
      \/ /\ Succeeded("transfer_from")
         /\ last.a1 = X
         /\ get_allowance(pre, X, last.caller) >= last.value

\* C19 witness: a spender other than the holder has lowered the holder's
\* balance with transfer_from.
C19_Witness ==
  /\ InitDone(pre)
  /\ Succeeded("transfer_from")
  /\ last.caller # last.a1
  /\ get_balance(storage, last.a1) < get_balance(pre, last.a1)

====
